---- MODULE Spec2Model ----
(***************************************************************************)
(* A model of the binary search tree of jmnjung/odin-bst (Tree and Node).  *)
(*                                                                         *)
(* A Node is the tuple <<data, left, right>>, the absent child (null) is   *)
(* the empty tuple.  Every node has exactly one owner, so a tree is        *)
(* modelled by its value; the in-place updates of the code (node.right =   *)
(* ..., node.data = ...) become the construction of the updated tuple.     *)
(* Dynamically typed arguments (the items of the input array, the values   *)
(* given to insert/deleteItem/find, the callbacks) are modelled as tagged  *)
(* values, and the conversions isNaN / Number by what they do on them.     *)
(***************************************************************************)
EXTENDS Integers, Sequences, FiniteSets, TLC

\* ---------------------------------------------------------------- bounds
MaxKey == 3
MaxLen == 4

KeyRange == 0..MaxKey

\* ------------------------------------------------------- dynamic values
Null == <<>>
Undefined == <<"undefined">>
Fn == <<"function">>

IsNull(x) == Len(x) = 0
IsNode(x) == Len(x) = 3
IsUndefined(x) == Len(x) = 1 /\ x[1] = "undefined"
\* typeof callback === "function"
IsFunction(x) == Len(x) = 1 /\ x[1] = "function"

\* new Node(data, left, right)
Node(d, l, r) == <<d, l, r>>
data(n) == n[1]
left(n) == n[2]
right(n) == n[3]

\* The values a caller may hand over: the number n, the decimal string of
\* n ("2"), null, a non-numeric string ("abc") and NaN itself.
RawValue ==
  [type : {"number", "string"}, n : KeyRange]
    \cup [type : {"null", "text", "NaN"}, n : {0}]

Callbacks == {Fn, Undefined, Null}

\* isNaN(item): true when the numeric coercion of the item is NaN
isNaN(item) == item.type \in {"text", "NaN"}

\* Number(item): the numeric coercion (Number(null) is 0, Number("2") is 2)
Number(item) ==
  CASE item.type = "number" -> item.n
    [] item.type = "string" -> item.n
    [] item.type = "null" -> 0
    [] OTHER -> "NaN"

\* ------------------------------------------------------- construction
\* [...new Set(nums)]: the first occurrence of every value, in order
RECURSIVE SetSpread(_)
SetSpread(s) ==
  IF Len(s) = 0 THEN <<>>
  ELSE LET p == SetSpread(SubSeq(s, 1, Len(s) - 1))
           x == s[Len(s)]
       IN IF \E i \in 1..Len(p) : p[i] = x THEN p ELSE Append(p, x)

\* .sort((a, b) => a - b): insertion of x after the elements e with e - x <= 0
SortInsert(sorted, x) ==
  LET k == Cardinality({i \in 1..Len(sorted) : sorted[i] - x <= 0})
  IN SubSeq(sorted, 1, k) \o <<x>> \o SubSeq(sorted, k + 1, Len(sorted))

RECURSIVE SortAsc(_)
SortAsc(s) ==
  IF Len(s) = 0 THEN <<>>
  ELSE SortInsert(SortAsc(SubSeq(s, 1, Len(s) - 1)), s[Len(s)])

processArray_noDedup(array) ==
  IF \E i \in 1..Len(array) : isNaN(array[i])
  THEN [err |-> "ConversionError", data |-> <<>>]
  ELSE [err |-> "none",
        data |-> SortAsc([i \in 1..Len(array) |-> Number(array[i])])]

processArray(array) ==
  IF \E i \in 1..Len(array) : isNaN(array[i])
  THEN [err |-> "ConversionError", data |-> <<>>]
  ELSE [err |-> "none",
        data |-> SortAsc(SetSpread([i \in 1..Len(array) |-> Number(array[i])]))]

RECURSIVE buildTree_lastAsRoot(_)
buildTree_lastAsRoot(array) ==
  IF Len(array) = 0 THEN Null
  ELSE LET mid == Len(array) - 1
       IN Node(array[mid + 1],
               buildTree_lastAsRoot(SubSeq(array, 1, mid)),
               buildTree_lastAsRoot(SubSeq(array, mid + 2, Len(array))))

\* mid is the 0-based index floor(length / 2); array[mid] is array[mid + 1] here
RECURSIVE buildTree(_)
buildTree(array) ==
  IF Len(array) = 0 THEN Null
  ELSE LET mid == Len(array) \div 2
       IN Node(array[mid + 1],
               buildTree(SubSeq(array, 1, mid)),
               buildTree(SubSeq(array, mid + 2, Len(array))))

\* ------------------------------------------------------------- insert
RECURSIVE insertRec_noEqualCheck(_, _)
insertRec_noEqualCheck(value, node) ==
  IF IsNull(node) THEN Node(value, Null, Null)
  ELSE IF data(node) < value
  THEN Node(data(node), left(node), insertRec_noEqualCheck(value, right(node)))
  ELSE Node(data(node), insertRec_noEqualCheck(value, left(node)), right(node))

RECURSIVE insertRec(_, _)
insertRec(value, node) ==
  IF IsNull(node) THEN Node(value, Null, Null)
  ELSE IF data(node) = value THEN node
  ELSE IF data(node) < value
  THEN Node(data(node), left(node), insertRec(value, right(node)))
  ELSE Node(data(node), insertRec(value, left(node)), right(node))

\* ------------------------------------------------------------- delete
nextItem_noDescent(node) == right(node)

\* node = node.right; while (node !== null && node.left !== null) node = node.left
RECURSIVE leftmost(_)
leftmost(node) ==
  IF ~IsNull(node) /\ ~IsNull(left(node)) THEN leftmost(left(node)) ELSE node

nextItem(node) == leftmost(right(node))

RECURSIVE deleteItemRec_keepSuccessor(_, _)
deleteItemRec_keepSuccessor(value, node) ==
  IF IsNull(node) THEN node
  ELSE IF data(node) < value
  THEN Node(data(node), left(node), deleteItemRec_keepSuccessor(value, right(node)))
  ELSE IF data(node) > value
  THEN Node(data(node), deleteItemRec_keepSuccessor(value, left(node)), right(node))
  ELSE IF IsNull(left(node)) THEN right(node)
  ELSE IF IsNull(right(node)) THEN left(node)
  ELSE LET nextNode == nextItem(node)
       IN Node(data(nextNode), left(node), right(node))

RECURSIVE deleteItemRec(_, _)
deleteItemRec(value, node) ==
  IF IsNull(node) THEN node
  ELSE IF data(node) < value
  THEN Node(data(node), left(node), deleteItemRec(value, right(node)))
  ELSE IF data(node) > value
  THEN Node(data(node), deleteItemRec(value, left(node)), right(node))
  ELSE IF IsNull(left(node)) THEN right(node)
  ELSE IF IsNull(right(node)) THEN left(node)
  ELSE LET nextNode == nextItem(node)
       IN Node(data(nextNode), left(node),
               deleteItemRec(data(nextNode), right(node)))

\* --------------------------------------------------------------- find
RECURSIVE findRec_wrongSide(_, _)
findRec_wrongSide(value, node) ==
  IF IsNull(node) THEN node
  ELSE IF data(node) = value THEN node
  ELSE IF data(node) > value THEN findRec_wrongSide(value, right(node))
  ELSE findRec_wrongSide(value, left(node))

RECURSIVE findRec(_, _)
findRec(value, node) ==
  IF IsNull(node) THEN node
  ELSE IF data(node) = value THEN node
  ELSE IF data(node) < value THEN findRec(value, right(node))
  ELSE findRec(value, left(node))

\* --------------------------------------------------------- traversals
\* A traversal yields the sequence of arguments its callback was invoked
\* with, and the error that ended it ("none" when it returned normally).
Done(calls) == [calls |-> calls, err |-> "none"]
Thrown(calls, e) == [calls |-> calls, err |-> e]

RECURSIVE inOrderRec(_, _)
inOrderRec(callback, node) ==
  IF IsNull(node) THEN Done(<<>>)
  ELSE LET l == inOrderRec(callback, left(node))
       IN IF l.err # "none" THEN l
          ELSE IF ~IsFunction(callback) THEN Thrown(l.calls, "TypeError")
          ELSE LET r == inOrderRec(callback, right(node))
               IN Thrown(l.calls \o <<node>> \o r.calls, r.err)

\* The recursive calls pass one argument: the child arrives as `callback`
\* and `node` is undefined.
RECURSIVE preOrderRec(_, _)
preOrderRec(callback, node) ==
  IF IsNull(node) THEN Done(<<>>)
  ELSE IF ~IsFunction(callback) THEN Thrown(<<>>, "TypeError")
  ELSE IF IsUndefined(node) THEN Thrown(<<node>>, "TypeError")
  ELSE LET l == preOrderRec(left(node), Undefined)
       IN IF l.err # "none" THEN Thrown(<<node>> \o l.calls, l.err)
          ELSE LET r == preOrderRec(right(node), Undefined)
               IN Thrown(<<node>> \o l.calls \o r.calls, r.err)

RECURSIVE postOrderRec(_, _)
postOrderRec(callback, node) ==
  IF IsNull(node) THEN Done(<<>>)
  ELSE IF IsUndefined(node) THEN Thrown(<<>>, "TypeError")
  ELSE LET l == postOrderRec(left(node), Undefined)
       IN IF l.err # "none" THEN l
          ELSE LET r == postOrderRec(right(node), Undefined)
               IN IF r.err # "none" THEN Thrown(l.calls \o r.calls, r.err)
                  ELSE IF ~IsFunction(callback)
                  THEN Thrown(l.calls \o r.calls, "TypeError")
                  ELSE Done(l.calls \o r.calls \o <<node>>)

inOrder(callback, root0) ==
  IF ~IsFunction(callback) THEN Thrown(<<>>, "CallbackError")
  ELSE inOrderRec(callback, root0)

preOrder(callback, root0) ==
  IF ~IsFunction(callback) THEN Thrown(<<>>, "CallbackError")
  ELSE preOrderRec(callback, root0)

postOrder(callback, root0) ==
  IF ~IsFunction(callback) THEN Thrown(<<>>, "CallbackError")
  ELSE postOrderRec(callback, root0)

\* ------------------------------------------------------ shape queries
Max(a, b) == IF a >= b THEN a ELSE b
Abs(a) == IF a >= 0 THEN a ELSE -a

RECURSIVE height(_)
height(node) ==
  IF IsNull(node) THEN 0
  ELSE Max(height(left(node)), height(right(node))) + 1

RECURSIVE isBalancedRec(_)
isBalancedRec(node) ==
  IF IsNull(node) THEN TRUE
  ELSE /\ Abs(height(left(node)) - height(right(node))) <= 1
       /\ isBalancedRec(left(node))
       /\ isBalancedRec(right(node))

isBalanced(root0) == isBalancedRec(root0)

\* data.push(node.data) for every node the in-order traversal visits
Collect(calls) == [i \in 1..Len(calls) |-> data(calls[i])]

rebalance_always(root0) == buildTree(Collect(inOrder(Fn, root0).calls))

rebalance(root0) ==
  IF ~isBalanced(root0)
  THEN buildTree(Collect(inOrder(Fn, root0).calls))
  ELSE root0

\* ---------------------------------------------------------- the state
\* root: this.root.  built: the constructor returned a Tree.
\* last: the most recent call, its arguments, the root before it, what it
\* returned, the callback invocations it made and the error it threw.
VARIABLES root, built, last
vars == <<root, built, last>>

NoValue == [type |-> "null", n |-> 0]

Call(op, before) ==
  [op |-> op, input |-> <<>>, value |-> NoValue, node |-> Null,
   callback |-> Null, before |-> before, ret |-> Null, calls |-> <<>>,
   err |-> "none"]

Inputs == UNION {[1..n -> RawValue] : n \in 0..MaxLen}

\* new Tree(array)
Init ==
  \E array \in Inputs :
    LET p == processArray(array)
    IN /\ built = (p.err = "none")
       /\ root = IF p.err = "none" THEN buildTree(p.data) ELSE Null
       /\ last = [Call("new", Null) EXCEPT !.input = array, !.err = p.err]

Insert ==
  /\ built
  /\ \E value \in RawValue :
       IF isNaN(value)
       THEN /\ root' = root
            /\ last' = [Call("insert", root) EXCEPT !.value = value,
                                                   !.err = "ConversionError"]
       ELSE /\ root' = insertRec(Number(value), root)
            /\ last' = [Call("insert", root) EXCEPT !.value = value]
  /\ UNCHANGED built

DeleteItem ==
  /\ built
  /\ \E value \in RawValue :
       IF isNaN(value)
       THEN /\ root' = root
            /\ last' = [Call("deleteItem", root) EXCEPT !.value = value,
                                                       !.err = "ConversionError"]
       ELSE /\ root' = deleteItemRec(Number(value), root)
            /\ last' = [Call("deleteItem", root) EXCEPT !.value = value]
  /\ UNCHANGED built

Find ==
  /\ built
  /\ \E value \in RawValue :
       IF isNaN(value)
       THEN last' = [Call("find", root) EXCEPT !.value = value,
                                             !.err = "ConversionError"]
       ELSE last' = [Call("find", root) EXCEPT !.value = value,
                                             !.ret = findRec(Number(value), root)]
  /\ UNCHANGED <<root, built>>

InOrder ==
  /\ built
  /\ \E callback \in Callbacks :
       LET r == inOrder(callback, root)
       IN last' = [Call("inOrder", root) EXCEPT !.callback = callback,
                                              !.calls = r.calls, !.err = r.err]
  /\ UNCHANGED <<root, built>>

PreOrder ==
  /\ built
  /\ \E callback \in Callbacks :
       LET r == preOrder(callback, root)
       IN last' = [Call("preOrder", root) EXCEPT !.callback = callback,
                                               !.calls = r.calls, !.err = r.err]
  /\ UNCHANGED <<root, built>>

PostOrder ==
  /\ built
  /\ \E callback \in Callbacks :
       LET r == postOrder(callback, root)
       IN last' = [Call("postOrder", root) EXCEPT !.callback = callback,
                                                !.calls = r.calls, !.err = r.err]
  /\ UNCHANGED <<root, built>>

\* the nodes of a tree, each given as the subtree it roots
RECURSIVE NodesOf(_)
NodesOf(t) ==
  IF IsNull(t) THEN {} ELSE {t} \cup NodesOf(left(t)) \cup NodesOf(right(t))

Height ==
  /\ built
  /\ \E node \in NodesOf(root) \cup {Null} :
       last' = [Call("height", root) EXCEPT !.node = node, !.ret = height(node)]
  /\ UNCHANGED <<root, built>>

IsBalanced ==
  /\ built
  /\ last' = [Call("isBalanced", root) EXCEPT !.ret = isBalanced(root)]
  /\ UNCHANGED <<root, built>>

Rebalance ==
  /\ built
  /\ root' = rebalance(root)
  /\ last' = Call("rebalance", root)
  /\ UNCHANGED built

Next ==
  \/ Insert
  \/ DeleteItem
  \/ Find
  \/ InOrder
  \/ PreOrder
  \/ PostOrder
  \/ Height
  \/ IsBalanced
  \/ Rebalance

Spec == Init /\ [][Next]_vars

\* ------------------------------------------------------ vocabulary
KeysOf(t) == {data(n) : n \in NodesOf(t)}

RECURSIVE Size(_)
Size(t) == IF IsNull(t) THEN 0 ELSE 1 + Size(left(t)) + Size(right(t))

\* keys of the left subtree < key < keys of the right subtree, at every node
Ordered(t) ==
  \A n \in NodesOf(t) :
    /\ \A m \in NodesOf(left(n)) : data(m) < data(n)
    /\ \A m \in NodesOf(right(n)) : data(m) > data(n)

StrictlyAscending(s) == \A i, j \in 1..Len(s) : i < j => s[i] < s[j]

\* the keys an in-order traversal of t hands to its callback
InOrderKeys(t) == Collect(inOrder(Fn, t).calls)

RECURSIVE PreOrderOf(_)
PreOrderOf(t) ==
  IF IsNull(t) THEN <<>>
  ELSE <<t>> \o PreOrderOf(left(t)) \o PreOrderOf(right(t))

RECURSIVE PostOrderOf(_)
PostOrderOf(t) ==
  IF IsNull(t) THEN <<>>
  ELSE PostOrderOf(left(t)) \o PostOrderOf(right(t)) \o <<t>>

\* the number of edges on the longest downward path from node n to a leaf
RECURSIVE LongestPathEdges(_)
LongestPathEdges(n) ==
  LET viaLeft == IF IsNull(left(n)) THEN 0 ELSE 1 + LongestPathEdges(left(n))
      viaRight == IF IsNull(right(n)) THEN 0 ELSE 1 + LongestPathEdges(right(n))
  IN Max(viaLeft, viaRight)

HasTwoChildren(n) == IsNode(n) /\ ~IsNull(left(n)) /\ ~IsNull(right(n))

\* ------------------------------------------------------------- claims

\* C1: every tree reachable by construction followed by insert, deleteItem
\* and rebalance calls is strictly ordered at every node, and its in-order
\* traversal yields a strictly ascending key sequence.
C1_BstInvariant ==
  built => Ordered(root) /\ StrictlyAscending(InOrderKeys(root))

\* a two-child node whose successor lies below its right child was deleted
C1_Witness ==
  /\ last.op = "deleteItem"
  /\ last.err = "none"
  /\ HasTwoChildren(last.before)
  /\ data(last.before) = Number(last.value)
  /\ ~IsNull(left(right(last.before)))

\* C2: after deleteItem(v) the key set is the previous key set without v,
\* exactly one node is gone when v was present, and the tree is unchanged
\* when v was absent.
C2_DeleteRemovesExactlyTheKey ==
  (last.op = "deleteItem" /\ last.err = "none") =>
    LET v == Number(last.value)
        present == v \in KeysOf(last.before)
    IN /\ KeysOf(root) = KeysOf(last.before) \ {v}
       /\ Size(root) = Size(last.before) - (IF present THEN 1 ELSE 0)
       /\ ~present => root = last.before

\* the key of a two-child root was deleted
C2_Witness ==
  /\ last.op = "deleteItem"
  /\ last.err = "none"
  /\ HasTwoChildren(last.before)
  /\ data(last.before) = Number(last.value)
  /\ Size(root) = 3

\* C3: after insert(v) the key set is the previous key set with v; a key
\* already present leaves the tree as it was, an absent key adds one node.
C3_InsertAddsExactlyTheKey ==
  (last.op = "insert" /\ last.err = "none") =>
    LET v == Number(last.value)
        present == v \in KeysOf(last.before)
    IN /\ KeysOf(root) = KeysOf(last.before) \cup {v}
       /\ Size(root) = Size(last.before) + (IF present THEN 0 ELSE 1)
       /\ present => root = last.before

\* a key held below the root was inserted again
C3_Witness ==
  /\ last.op = "insert"
  /\ last.err = "none"
  /\ IsNode(last.before)
  /\ Number(last.value) \in KeysOf(last.before)
  /\ Number(last.value) # data(last.before)

\* C4: preOrder with an invocable callback completes without error and
\* invokes the callback once per node: node, left subtree, right subtree.
C4_PreOrderVisitsEveryNode ==
  (last.op = "preOrder" /\ IsFunction(last.callback)) =>
    /\ last.err = "none"
    /\ last.calls = PreOrderOf(last.before)

\* C5: postOrder with an invocable callback completes without error and
\* invokes the callback once per node: left subtree, right subtree, node.
C5_PostOrderVisitsEveryNode ==
  (last.op = "postOrder" /\ IsFunction(last.callback)) =>
    /\ last.err = "none"
    /\ last.calls = PostOrderOf(last.before)

\* C6: the tree built from any numeric input is balanced at every node, in
\* subtree sizes and in subtree heights, and isBalanced() returns true.
C6_ConstructionBalanced ==
  (last.op = "new" /\ built) =>
    /\ \A n \in NodesOf(root) :
         /\ Abs(Size(left(n)) - Size(right(n))) <= 1
         /\ Abs(height(left(n)) - height(right(n))) <= 1
    /\ isBalanced(root)

\* built from an input with duplicates that leaves at least three keys
C6_Witness ==
  /\ last.op = "new"
  /\ built
  /\ Size(root) >= 3
  /\ Len(last.input) > Size(root)

\* C7: rebalance() keeps the in-order key sequence and leaves a balanced
\* tree; a balanced tree is left unchanged, so a second call changes nothing.
C7_RebalanceKeepsKeysAndBalances ==
  last.op = "rebalance" =>
    /\ InOrderKeys(root) = InOrderKeys(last.before)
    /\ isBalanced(root)
    /\ isBalanced(last.before) => root = last.before
    /\ rebalance(root) = root

\* an unbalanced tree was rebalanced
C7_Witness ==
  /\ last.op = "rebalance"
  /\ ~isBalanced(last.before)
  /\ Size(root) >= 3

\* C8: the keys collected by inOrder right after new(arr) are the numbers
\* of arr in ascending order, each distinct one exactly once.
C8_RoundTrip ==
  (last.op = "new" /\ built) =>
    LET s == InOrderKeys(root)
    IN /\ StrictlyAscending(s)
       /\ {s[i] : i \in 1..Len(s)}
            = {Number(last.input[i]) : i \in 1..Len(last.input)}

\* built from an unsorted input in which a number and its string repeat a key
C8_Witness ==
  /\ last.op = "new"
  /\ built
  /\ \E i, j \in 1..Len(last.input) :
       /\ i < j
       /\ Number(last.input[i]) > Number(last.input[j])
  /\ \E i, j \in 1..Len(last.input) :
       /\ i < j
       /\ last.input[i].type = "number"
       /\ last.input[j].type = "string"
       /\ Number(last.input[i]) = Number(last.input[j])

\* C9: find(v) returns a node of the tree holding v exactly when v is a key
\* of the tree, returns null otherwise, and leaves the tree unchanged.
C9_FindIffPresent ==
  (last.op = "find" /\ last.err = "none") =>
    LET v == Number(last.value)
        r == last.ret
    IN /\ IsNode(r) <=> v \in KeysOf(root)
       /\ IsNode(r) => data(r) = v /\ r \in NodesOf(root)
       /\ ~IsNode(r) => IsNull(r)
       /\ root = last.before

\* a key held two levels below the root was found
C9_Witness ==
  /\ last.op = "find"
  /\ last.err = "none"
  /\ IsNode(last.ret)
  /\ last.ret \notin {root, left(root), right(root)}

\* C10: height(node) is the number of edges on the longest downward path
\* from the node to a leaf of its subtree.
C10_HeightCountsEdges ==
  (last.op = "height" /\ IsNode(last.node)) =>
    last.ret = LongestPathEdges(last.node)

====
